---- MODULE Spec2Model ----
(***************************************************************************)
(* Model of frequency_count.py: the FileAnalyzer class (stopword loading,  *)
(* PDF/DOCX extraction, top-K frequency analysis, exact-word count) and    *)
(* the Tk GUI that drives it (Select File, Analyze File, Count Word        *)
(* Frequency).                                                             *)
(*                                                                         *)
(* A text is a sequence of characters; a character is a one-symbol string. *)
(* The module is written in ASCII, so the CJK characters are written by     *)
(* name: "ni" "hao" "shi" "jie" are the four ideographs of the words       *)
(* ni-hao and shi-jie, "fcomma" "fstop" "fbang" are the full-width comma,  *)
(* full stop and exclamation mark.  A token is a sequence of characters.   *)
(***************************************************************************)
EXTENDS Integers, Sequences, FiniteSets, TLC

VARIABLES file_path, picked, output_area, shown, handlers, stopwords, openHandles, call

vars == <<file_path, picked, output_area, shown, handlers, stopwords, openHandles, call>>

(***************************************************************************)
(* Bounds of the model.                                                    *)
(***************************************************************************)
MaxConstructions == 2
MaxTextLen == 3
MaxK == 2

(***************************************************************************)
(* Character classes, as the regular expressions of the source read them.  *)
(***************************************************************************)
HanChars == {"ni", "hao", "shi", "jie"}
DigitChars == {"2", "3"}
LetterChars == {"a", "p", "l", "e", "s", "o", "r", "n", "g"}
SpaceChars == {" ", "\n"}

\* r'\d' (line 122)
number_pattern(c) == c \in DigitChars

\* r'[^\w\s]' (line 123): neither a word character nor whitespace
special_char_pattern(c) ==
    /\ c \notin HanChars \cup DigitChars \cup LetterChars
    /\ c \notin SpaceChars

\* r'[\u4e00-\u9fff]+' with fullmatch (lines 124, 127)
chinese_char_pattern(w) == Len(w) >= 1 /\ \A i \in DOMAIN w : w[i] \in HanChars

\* the character class of line 168, restricted to the model's alphabet
punctuation_pattern(c) == c \in {",", "!", "fcomma", "fstop", "fbang"}

(***************************************************************************)
(* Python string helpers.                                                  *)
(***************************************************************************)
Min(a, b) == IF a < b THEN a ELSE b

RECURSIVE lstrip(_)
lstrip(s) == IF s # <<>> /\ s[1] \in SpaceChars THEN lstrip(Tail(s)) ELSE s

RECURSIVE rstrip(_)
rstrip(s) ==
    IF s # <<>> /\ s[Len(s)] \in SpaceChars
    THEN rstrip(SubSeq(s, 1, Len(s) - 1)) ELSE s

\* str.strip()
strip(s) == rstrip(lstrip(s))

\* ' '.join(words)
RECURSIVE join(_)
join(ws) ==
    IF ws = <<>> THEN <<>>
    ELSE IF Len(ws) = 1 THEN ws[1]
    ELSE ws[1] \o <<" ">> \o join(Tail(ws))

\* re.sub(punctuation_pattern, ' ', text)
sub_punctuation(text) ==
    [i \in DOMAIN text |-> IF punctuation_pattern(text[i]) THEN " " ELSE text[i]]

\* re.findall(pattern, text) for a one-character pattern
RECURSIVE findall_numbers(_)
findall_numbers(text) ==
    IF text = <<>> THEN <<>>
    ELSE (IF number_pattern(text[1]) THEN <<text[1]>> ELSE <<>>)
         \o findall_numbers(Tail(text))

RECURSIVE findall_special(_)
findall_special(text) ==
    IF text = <<>> THEN <<>>
    ELSE (IF special_char_pattern(text[1]) THEN <<text[1]>> ELSE <<>>)
         \o findall_special(Tail(text))

(***************************************************************************)
(* jieba.cut: plain segmentation.  Runs of ASCII letters and digits come   *)
(* out as one token, ideographs are grouped by the longest dictionary word *)
(* that starts there (a single ideograph otherwise), every other character *)
(* (whitespace and punctuation included) is a token of its own.  The       *)
(* library's statistical regrouping of out-of-dictionary ideographs is not *)
(* modelled.                                                               *)
(***************************************************************************)
Dict == {<<"ni", "hao">>, <<"shi", "jie">>}

IsAlnum(c) == c \in DigitChars \cup LetterChars

RECURSIVE AlnumRun(_, _)
AlnumRun(text, i) ==
    IF i <= Len(text) /\ IsAlnum(text[i]) THEN 1 + AlnumRun(text, i + 1) ELSE 0

DictLen(text, i) ==
    LET ls == {Len(w) : w \in {d \in Dict :
                   /\ i + Len(d) - 1 <= Len(text)
                   /\ SubSeq(text, i, i + Len(d) - 1) = d}}
    IN IF ls = {} THEN 1 ELSE CHOOSE l \in ls : \A m \in ls : m <= l

RECURSIVE cut_from(_, _)
cut_from(text, i) ==
    IF i > Len(text) THEN <<>>
    ELSE LET n == IF IsAlnum(text[i]) THEN AlnumRun(text, i)
                  ELSE IF text[i] \in HanChars THEN DictLen(text, i)
                  ELSE 1
         IN <<SubSeq(text, i, i + n - 1)>> \o cut_from(text, i + n)

cut(text) == cut_from(text, 1)

(***************************************************************************)
(* FileAnalyzer._remove_stopwords (lines 47-49).                           *)
(***************************************************************************)
RECURSIVE remove_stopwords(_, _)
remove_stopwords(words, sw) ==
    IF words = <<>> THEN <<>>
    ELSE (IF Len(words[1]) > 1 /\ words[1] \notin sw THEN <<words[1]>> ELSE <<>>)
         \o remove_stopwords(Tail(words), sw)

(***************************************************************************)
(* collections.Counter and Counter.most_common.  A Counter is the sequence *)
(* of <<element, count>> pairs in first-seen order (dict insertion order). *)
(***************************************************************************)
RECURSIVE Distinct(_)
Distinct(ws) ==
    IF ws = <<>> THEN <<>>
    ELSE LET init == Distinct(SubSeq(ws, 1, Len(ws) - 1))
             last == ws[Len(ws)]
         IN IF \E i \in DOMAIN init : init[i] = last THEN init
            ELSE Append(init, last)

Occurrences(ws, e) == Cardinality({i \in DOMAIN ws : ws[i] = e})

\* FileAnalyzer._word_frequency (lines 75-85): Counter(words)
word_frequency(ws) ==
    LET d == Distinct(ws) IN [i \in DOMAIN d |-> <<d[i], Occurrences(ws, d[i])>>]

\* insert pair p into the descending sequence s after every pair whose
\* weight is at least p's: a stable sort, largest first
RECURSIVE InsertDesc(_, _)
InsertDesc(s, p) ==
    IF s = <<>> THEN <<p>>
    ELSE IF s[1][2] >= p[2] THEN <<s[1]>> \o InsertDesc(Tail(s), p)
    ELSE <<p>> \o s

RECURSIVE SortedDesc(_)
SortedDesc(items) ==
    IF items = <<>> THEN <<>>
    ELSE InsertDesc(SortedDesc(SubSeq(items, 1, Len(items) - 1)), items[Len(items)])

\* the first n entries in first-seen order, not sorted by count
most_common_first_seen(counter, n) ==
    IF n <= 0 THEN <<>> ELSE SubSeq(counter, 1, Min(n, Len(counter)))

\* Counter.most_common(n) = heapq.nlargest(n, items, key=count), which is
\* sorted(items, key=count, reverse=True)[:n], and [] for n <= 0
most_common(counter, n) ==
    IF n <= 0 THEN <<>>
    ELSE SubSeq(SortedDesc(counter), 1, Min(n, Len(counter)))

(***************************************************************************)
(* jieba.analyse.extract_tags(sentence, topK, withWeight=False): cuts the  *)
(* sentence again, drops tokens shorter than two characters once stripped, *)
(* counts each remaining term, weighs the count by the term's inverse      *)
(* document frequency and returns the distinct terms, heaviest first,      *)
(* at most topK of them.  The library's idf table is not part of the       *)
(* source: `rare` is the set of terms it gives the higher weight.          *)
(***************************************************************************)
topK == 1000

RECURSIVE KeepTerms(_)
KeepTerms(ws) ==
    IF ws = <<>> THEN <<>>
    ELSE (IF Len(strip(ws[1])) >= 2 THEN <<ws[1]>> ELSE <<>>) \o KeepTerms(Tail(ws))

extract_tags(sentence, rare) ==
    LET freq == word_frequency(KeepTerms(cut(sentence)))
        tfidf == [i \in DOMAIN freq |->
                    <<freq[i][1], freq[i][2] * (IF freq[i][1] \in rare THEN 3 ELSE 1)>>]
        tags == SortedDesc(tfidf)
    IN [i \in 1..Min(topK, Len(tags)) |-> tags[i][1]]

(***************************************************************************)
(* File paths.  A path is <<stem, suffix>>, the suffix being the text from *)
(* the last dot on; "" is <<>> and None is <<"None">>.                     *)
(***************************************************************************)
None == <<"None">>
EmptyString == <<>>

\* a test for None alone, which takes "" for a selected path
truthy_not_none(v) == v # None

\* Python truthiness of a str-or-None value (lines 200, 204, 225, 229)
truthy(v) == v # None /\ v # EmptyString

\* a suffix test that ignores case
endswith_nocase(path, suffix) ==
    /\ Len(path) = 2
    /\ (IF path[2] = ".PDF" THEN ".pdf" ELSE IF path[2] = ".DOCX" THEN ".docx" ELSE path[2])
         = suffix

\* str.endswith, case-sensitive (lines 106, 108, 159, 161)
endswith(path, suffix) == Len(path) = 2 /\ path[2] = suffix

(***************************************************************************)
(* Documents on disk.  A document is [parts, fault]: its pages (PDF) or    *)
(* paragraphs (DOCX) and whether the parsing library fails on it: "open"   *)
(* fails in the call that opens the file, "read" fails while pages are     *)
(* read, after the file was opened.                                        *)
(* An extraction returns [raised, text, held]: held is the number of       *)
(* document handles the call opened and did not close.                     *)
(***************************************************************************)
RECURSIVE Concat(_)
Concat(parts) == IF parts = <<>> THEN <<>> ELSE parts[1] \o Concat(Tail(parts))

RECURSIVE JoinLines(_)
JoinLines(parts) ==
    IF parts = <<>> THEN <<>>
    ELSE IF Len(parts) = 1 THEN parts[1]
    ELSE parts[1] \o <<"\n">> \o JoinLines(Tail(parts))

\* FileAnalyzer._extract_text_from_pdf (lines 51-63): fitz.open, then one
\* get_text per page; no close() and no with/finally on any path
extract_text_from_pdf(doc) ==
    IF doc.fault = "open" THEN [raised |-> TRUE, text |-> <<>>, held |-> 0]
    ELSE IF doc.fault = "read" THEN [raised |-> TRUE, text |-> <<>>, held |-> 1]
    ELSE [raised |-> FALSE, text |-> Concat(doc.parts), held |-> 1]

\* FileAnalyzer._extract_text_from_docx (lines 65-73): Document(path) reads
\* the whole package and the library closes the archive before it returns;
\* the paragraphs are then read from memory
extract_text_from_docx(doc) ==
    IF doc.fault # "none" THEN [raised |-> TRUE, text |-> <<>>, held |-> 0]
    ELSE [raised |-> FALSE, text |-> JoinLines(doc.parts), held |-> 0]

(***************************************************************************)
(* The outcome of one FileAnalyzer method call:                            *)
(*   raised, message  whether it raised, and str(e)                        *)
(*   ret_kind         "dict", "int", "None", or "raise"                    *)
(*   result           the three top-K lists (analyze_file)                 *)
(*   candidates       the three candidate lists they were taken from       *)
(*   printed          what count_given_word_frequency printed, else -1     *)
(*   records          the log records emitted, in order                    *)
(*   extracted        an extraction routine was called                     *)
(*   held             handles opened and not closed by the call            *)
(***************************************************************************)
NoLists == [Chinese |-> <<>>, Numbers |-> <<>>, Special |-> <<>>]

UnsupportedMessage == "Unsupported file format. Only .pdf and .docx are supported."

ErrorRecord == [level |-> "ERROR", msg |-> "Unsupported file format"]

InfoRecord(what) == [level |-> "INFO", msg |-> what]

\* the else branch of lines 110-113 and 163-166
Unsupported ==
    [raised |-> TRUE, message |-> UnsupportedMessage, ret_kind |-> "raise",
     result |-> NoLists, candidates |-> NoLists, printed |-> -1,
     records |-> <<ErrorRecord>>, extracted |-> FALSE, held |-> 0]

\* an exception of the parsing library, propagated unchanged
ExtractionFailure(ex) ==
    [raised |-> TRUE, message |-> "extraction failed", ret_kind |-> "raise",
     result |-> NoLists, candidates |-> NoLists, printed |-> -1,
     records |-> <<>>, extracted |-> TRUE, held |-> ex.held]

\* lines 106-109 and 159-162: dispatch on the suffix
Extraction(path, doc) ==
    IF endswith(path, ".pdf") THEN extract_text_from_pdf(doc)
    ELSE extract_text_from_docx(doc)

Supported(path) == endswith(path, ".pdf") \/ endswith(path, ".docx")

RECURSIVE FilterChinese(_)
FilterChinese(ws) ==
    IF ws = <<>> THEN <<>>
    ELSE (IF chinese_char_pattern(ws[1]) THEN <<ws[1]>> ELSE <<>>)
         \o FilterChinese(Tail(ws))

\* lines 115-133: the three candidate lists
Candidates(text, sw, rare) ==
    LET cleaned_words == remove_stopwords(cut(text), sw)
        cleaned_text == join(cleaned_words)
        words == extract_tags(cleaned_text, rare)
    IN [Chinese |-> FilterChinese(words),
        Numbers |-> findall_numbers(text),
        Special |-> findall_special(text)]

\* lines 135-150: tally each list, take the top_k_words most common
TopLists(cand, top_k_words) ==
    [Chinese |-> most_common(word_frequency(cand.Chinese), top_k_words),
     Numbers |-> most_common(word_frequency(cand.Numbers), top_k_words),
     Special |-> most_common(word_frequency(cand.Special), top_k_words)]

\* FileAnalyzer.analyze_file (lines 96-150)
analyze_file(path, doc, top_k_words, sw, rare) ==
    IF ~Supported(path) THEN Unsupported
    ELSE LET ex == Extraction(path, doc) IN
         IF ex.raised THEN ExtractionFailure(ex)
         ELSE LET cand == Candidates(ex.text, sw, rare) IN
              [raised |-> FALSE, message |-> "", ret_kind |-> "dict",
               result |-> TopLists(cand, top_k_words), candidates |-> cand,
               printed |-> -1,
               records |-> <<InfoRecord("Most common chinese characters: %s"),
                             InfoRecord("Most common numbers: %s"),
                             InfoRecord("Most common special characters: %s")>>,
               extracted |-> TRUE, held |-> ex.held]

\* lines 168-172: the tokens the given word is compared with
RECURSIVE StripTokens(_)
StripTokens(ws) ==
    IF ws = <<>> THEN <<>>
    ELSE (IF strip(ws[1]) # <<>> THEN <<strip(ws[1])>> ELSE <<>>)
         \o StripTokens(Tail(ws))

CountTokens(text) == StripTokens(cut(sub_punctuation(text)))

\* FileAnalyzer.count_given_word_frequency (lines 153-174): the count is
\* printed; the method has no return statement
count_given_word_frequency(path, doc, input_word) ==
    IF ~Supported(path) THEN Unsupported
    ELSE LET ex == Extraction(path, doc) IN
         IF ex.raised THEN ExtractionFailure(ex)
         ELSE [raised |-> FALSE, message |-> "", ret_kind |-> "None",
               result |-> NoLists, candidates |-> NoLists,
               printed |-> Occurrences(CountTokens(ex.text), input_word),
               records |-> <<>>, extracted |-> TRUE, held |-> ex.held]

(***************************************************************************)
(* The stopword directory.  A directory is the sequence of files os.walk   *)
(* finds under 'stopwords', each [name, decodable, lines]: name is         *)
(* <<stem, suffix>>, lines are the lines iterating the file yields (with   *)
(* their line terminator), decodable is FALSE for a file that is not       *)
(* UTF-8.  An absent directory is the empty sequence: os.walk yields       *)
(* nothing.                                                                *)
(***************************************************************************)
\* lines 44-45: every stripped line is added, with no test for emptiness
FileWords(file) == {strip(file.lines[i]) : i \in DOMAIN file.lines}

\* line 40
IsStopwordFile(file) == endswith(file.name, ".txt")

\* FileAnalyzer.__init__, lines 37-45
load_stopwords(dir) ==
    LET txt == {i \in DOMAIN dir : IsStopwordFile(dir[i])} IN
    IF \E i \in txt : ~dir[i].decodable
    THEN [raised |-> TRUE, message |-> "codec can't decode", stopwords |-> {}]
    ELSE [raised |-> FALSE, message |-> "",
          stopwords |-> UNION {FileWords(dir[i]) : i \in txt}]

(***************************************************************************)
(* The process-wide logger, logging.getLogger(__name__): handlers is the   *)
(* sequence of its handlers, each the sequence of records it has written.  *)
(***************************************************************************)
\* a handler added only when the logger has none yet
addHandler_once(hs) == IF hs = <<>> THEN Append(hs, <<>>) ELSE hs

\* line 36: self.logger.addHandler(logging.FileHandler(...))
addHandler(hs) == Append(hs, <<>>)

\* Logger.error / Logger.info: the record goes to every handler
Emit(hs, records) == [i \in DOMAIN hs |-> hs[i] \o records]

(***************************************************************************)
(* The GUI.  shown is the sequence of dialogs the most recent action       *)
(* showed; output_area is the text of the ScrolledText, line by line, each *)
(* line [text, count]: a heading has an empty count.                       *)
(***************************************************************************)
Digit == <<"0", "1", "2", "3", "4", "5", "6", "7", "8", "9">>

\* str(n) for a count
RECURSIVE str(_)
str(n) == IF n < 10 THEN <<Digit[n + 1]>> ELSE str(n \div 10) \o <<Digit[(n % 10) + 1]>>

\* str(None)
strNone == <<"N", "o", "n", "e">>

Dialog(kind, title, message) == [kind |-> kind, title |-> title, message |-> message]

NoFileWarning == Dialog("showwarning", "No File", <<"Please select a file first.">>)

ErrorDialog(message) == Dialog("showerror", "Error", <<message>>)

Prompt == Dialog("askstring", "Input", <<"Enter the word to count its frequency:">>)

Heading(title) == [text |-> <<title>>, count |-> <<>>]

\* f"{word}: {count}\n"
Lines(common) == [i \in DOMAIN common |-> [text |-> common[i][1], count |-> str(common[i][2])]]

\* lines 210-220: delete everything, then insert the three headed lists
render(results) ==
    <<Heading("Most Common Chinese Words:")>> \o Lines(results.Chinese)
    \o <<Heading("\nMost Common Numbers:")>> \o Lines(results.Numbers)
    \o <<Heading("\nMost Common Special Characters:")>> \o Lines(results.Special)

\* the region cleared before the analysis is attempted
output_after_cleared(before, out) == IF out.raised THEN <<>> ELSE render(out.result)

\* lines 207-222: what the output region holds after the try statement
output_after(before, out) == IF out.raised THEN before ELSE render(out.result)

\* a cancelled picker leaving the earlier selection in place
picked_path_keep(before, chosen) == IF chosen = EmptyString THEN before ELSE chosen

\* line 199: the picker's return value (picked) is stored whatever it is
picked_path(before, chosen) == chosen

\* default of analyze_file's parameter (line 96)
top_k_words == 10

NoOutcome ==
    [raised |-> FALSE, message |-> "", ret_kind |-> "none",
     result |-> NoLists, candidates |-> NoLists, printed |-> -1,
     records |-> <<>>, extracted |-> FALSE, held |-> 0]

NoCall ==
    [op |-> "none", path |-> None, k |-> 0, word |-> None,
     dir |-> <<>>, doc |-> [parts |-> <<>>, fault |-> "none"],
     constructed |-> FALSE, out |-> NoOutcome]

ConstructionFailure(init) ==
    [raised |-> TRUE, message |-> init.message, ret_kind |-> "raise",
     result |-> NoLists, candidates |-> NoLists, printed |-> -1,
     records |-> <<>>, extracted |-> FALSE, held |-> 0]

(***************************************************************************)
(* Inputs: the files a user can pick, what is on disk, what is typed.      *)
(***************************************************************************)
Paths == {<<"report", ".pdf">>, <<"memo", ".docx">>, <<"notes", ".txt">>, <<"scan", ".PDF">>}

\* "3 apples, 2 oranges! ni-hao fcomma ni-hao fstop"
FruitText ==
    <<"3", " ", "a", "p", "p", "l", "e", "s", ",", " ", "2", " ",
      "o", "r", "a", "n", "g", "e", "s", "!", " ",
      "ni", "hao", "fcomma", "ni", "hao", "fstop">>

\* "ni-hao fcomma shi-jie fbang ni-hao fbang"
HelloText == <<"ni", "hao", "fcomma", "shi", "jie", "fbang", "ni", "hao", "fbang">>

Documents ==
    {[parts |-> <<FruitText>>, fault |-> "none"],
     [parts |-> <<HelloText, <<"2", "2", "3">>>>, fault |-> "none"],
     [parts |-> <<>>, fault |-> "open"],
     [parts |-> <<HelloText>>, fault |-> "read"]}

StopwordDirs ==
    {<<>>,
     <<[name |-> <<"cn", ".txt">>, decodable |-> TRUE,
        lines |-> <<<<"shi", "jie", "\n">>, <<"\n">>, <<" ", "ni", "hao", " ", "\n">>>>],
       [name |-> <<"README", ".md">>, decodable |-> FALSE, lines |-> <<>>]>>,
     <<[name |-> <<"gbk", ".txt">>, decodable |-> FALSE, lines |-> <<>>]>>}

InputWords == {<<"ni", "hao">>, <<"2">>}

RareTerms == {{}, {<<"shi", "jie">>}}

(***************************************************************************)
(* One FileAnalyzer: constructed, then one method called on it (lines      *)
(* 208-209 and 231-232).                                                   *)
(***************************************************************************)
Outcome(op, path, k, word, dir, doc, rare) ==
    LET init == load_stopwords(dir) IN
    IF init.raised THEN ConstructionFailure(init)
    ELSE IF op = "analyze" THEN analyze_file(path, doc, k, init.stopwords, rare)
    ELSE count_given_word_frequency(path, doc, word)

\* the effect on the process: the logger gets its handler in __init__ before
\* the stopwords are read; a handle the call left open stays open unless the
\* runtime has finalized the document object (released)
Session(op, path, k, word, dir, doc, out, released) ==
    LET init == load_stopwords(dir) IN
    /\ handlers' = Emit(addHandler(handlers), out.records)
    /\ stopwords' = IF init.raised THEN stopwords ELSE init.stopwords
    /\ openHandles' = openHandles + (IF released THEN 0 ELSE out.held)
    /\ call' = [op |-> op, path |-> path, k |-> k, word |-> word,
                dir |-> dir, doc |-> doc,
                constructed |-> ~init.raised, out |-> out]

Init ==
    /\ file_path = None
    /\ picked = None
    /\ output_area = <<>>
    /\ shown = <<>>
    /\ handlers = <<>>
    /\ stopwords = {}
    /\ openHandles = 0
    /\ call = NoCall

\* GUI.select_file (lines 198-201)
SelectFile ==
    \E chosen \in Paths \cup {EmptyString} :
        /\ picked' = chosen
        /\ file_path' = picked_path(file_path, chosen)
        /\ shown' = IF truthy(file_path')
                    THEN <<Dialog("showinfo", "File Selected", <<"Selected file: ", file_path'>>)>>
                    ELSE <<>>
        /\ call' = NoCall
        /\ UNCHANGED <<output_area, handlers, stopwords, openHandles>>

\* GUI.analyze_file, lines 204-206
AnalyzeNoFile ==
    /\ ~truthy(file_path)
    /\ shown' = <<NoFileWarning>>
    /\ call' = NoCall
    /\ UNCHANGED <<file_path, picked, output_area, handlers, stopwords, openHandles>>

\* GUI.analyze_file, lines 207-222
AnalyzeFile ==
    /\ truthy(file_path)
    /\ Len(handlers) < MaxConstructions
    /\ \E dir \in StopwordDirs, doc \in Documents, rare \in RareTerms, released \in BOOLEAN :
        LET out == Outcome("analyze", file_path, top_k_words, None, dir, doc, rare) IN
        /\ Session("analyze", file_path, top_k_words, None, dir, doc, out, released)
        /\ output_area' = output_after(output_area, out)
        /\ shown' = IF out.raised THEN <<ErrorDialog(out.message)>> ELSE <<>>
        /\ UNCHANGED <<file_path, picked>>

\* GUI.count_word_frequency, lines 225-227
CountNoFile ==
    /\ ~truthy(file_path)
    /\ shown' = <<NoFileWarning>>
    /\ call' = NoCall
    /\ UNCHANGED <<file_path, picked, output_area, handlers, stopwords, openHandles>>

\* GUI.count_word_frequency, lines 228-229 with a cancelled or empty input
CountNoWord ==
    /\ truthy(file_path)
    /\ \E input_word \in {None, EmptyString} :
        /\ ~truthy(input_word)
        /\ shown' = <<Prompt>>
        /\ call' = NoCall
    /\ UNCHANGED <<file_path, picked, output_area, handlers, stopwords, openHandles>>

\* GUI.count_word_frequency, lines 228-235: frequency is the method's return
\* value, which is None
CountWord ==
    /\ truthy(file_path)
    /\ Len(handlers) < MaxConstructions
    /\ \E input_word \in InputWords, dir \in StopwordDirs, doc \in Documents,
          released \in BOOLEAN :
        LET out == Outcome("count", file_path, 0, input_word, dir, doc, {})
            frequency == IF out.ret_kind = "int" THEN str(out.printed) ELSE strNone
        IN
        /\ truthy(input_word)
        /\ Session("count", file_path, 0, input_word, dir, doc, out, released)
        /\ shown' = <<Prompt,
                      IF out.raised THEN ErrorDialog(out.message)
                      ELSE Dialog("showinfo", "Word Frequency",
                                  <<"The frequency of '", input_word, "' is: ", frequency>>)>>
        /\ UNCHANGED <<file_path, picked, output_area>>

\* the runtime finalizes document objects that are no longer referenced
Finalize ==
    /\ openHandles > 0
    /\ openHandles' = 0
    /\ UNCHANGED <<file_path, picked, output_area, shown, handlers, stopwords, call>>

Next ==
    \/ SelectFile
    \/ AnalyzeNoFile
    \/ AnalyzeFile
    \/ CountNoFile
    \/ CountNoWord
    \/ CountWord
    \/ Finalize

Spec == Init /\ [][Next]_vars

(***************************************************************************)
(* The analyzer called directly, once in a fresh process, on any short     *)
(* text and with any top_k_words.                                          *)
(***************************************************************************)
TextChars == {"ni", "hao", "2", "3", ",", " "}

Texts == UNION {[1..m -> TextChars] : m \in 0..MaxTextLen}

ApiDocuments == Documents \cup {[parts |-> <<t>>, fault |-> "none"] : t \in Texts}

TopKs == 0..MaxK \cup {5, top_k_words}

ApiAnalyze ==
    /\ handlers = <<>>
    /\ \E path \in Paths, doc \in ApiDocuments, k \in TopKs, dir \in StopwordDirs,
          rare \in RareTerms, released \in BOOLEAN :
        LET out == Outcome("analyze", path, k, None, dir, doc, rare) IN
        /\ Session("analyze", path, k, None, dir, doc, out, released)
        /\ UNCHANGED <<file_path, picked, output_area, shown>>

ApiCount ==
    /\ handlers = <<>>
    /\ \E path \in Paths, doc \in ApiDocuments, input_word \in InputWords,
          dir \in StopwordDirs, released \in BOOLEAN :
        LET out == Outcome("count", path, 0, input_word, dir, doc, {}) IN
        /\ Session("count", path, 0, input_word, dir, doc, out, released)
        /\ UNCHANGED <<file_path, picked, output_area, shown>>

NextApi == ApiAnalyze \/ ApiCount

SpecApi == Init /\ [][NextApi]_vars

(***************************************************************************)
(* Properties.                                                             *)
(***************************************************************************)
AnalyzeAction == AnalyzeNoFile \/ AnalyzeFile

CountAction == CountNoFile \/ CountNoWord \/ CountWord

\* A step in which an analyzer was constructed and called: every action
\* but Finalize sets call, to NoCall when it constructs no analyzer.
AnalyzeStep == call'.op = "analyze" /\ ~Finalize

CountStep == call'.op = "count" /\ ~Finalize

SupportedSuffixes == {".pdf", ".docx"}

\* C1: a successful exact-word count returns the number of stripped,
\* non-empty tokens of the punctuation-free text that equal the target
\* word, and the Word Frequency dialog displays that number.
C1_DialogShowsCount ==
    (call.op = "count" /\ ~call.out.raised) =>
        /\ call.out.ret_kind = "int"
        /\ shown[2].message[4] =
             str(Occurrences(CountTokens(Extraction(call.path, call.doc).text), call.word))

\* C2: on a path whose suffix is not exactly ".pdf" or ".docx" the method
\* logs one error record and raises the unsupported-format error before any
\* extraction routine is called and without a result; the GUI shows that
\* message in an error dialog.
C2_UnsupportedFormat ==
    (call.constructed /\ call.path[2] \notin SupportedSuffixes) =>
        /\ call.out.raised
        /\ call.out.ret_kind = "raise"
        /\ call.out.message = "Unsupported file format. Only .pdf and .docx are supported."
        /\ call.out.records = <<[level |-> "ERROR", msg |-> "Unsupported file format"]>>
        /\ ~call.out.extracted
        /\ call.out.result = NoLists
        /\ shown[Len(shown)] = ErrorDialog(call.out.message)

C2_Witness ==
    /\ call.op = "count"
    /\ call.constructed
    /\ call.path = <<"scan", ".PDF">>
    /\ shown[Len(shown)].kind = "showerror"

\* C3: whenever no extraction call is in progress (every state between two
\* actions), no document handle is open.
C3_HandlesReleased == openHandles = 0

FirstIndex(ws, e) == CHOOSE i \in DOMAIN ws : ws[i] = e /\ \A j \in 1..(i - 1) : ws[j] # e

Elements(ws) == {ws[i] : i \in DOMAIN ws}

TopKOk(cand, k, common) ==
    /\ Len(common) <= k
    /\ \A i \in DOMAIN common :
        /\ common[i][1] \in Elements(cand)
        /\ common[i][2] = Occurrences(cand, common[i][1])
    /\ \A i, j \in DOMAIN common :
        i < j =>
            /\ common[i][1] # common[j][1]
            /\ common[i][2] >= common[j][2]
            /\ common[i][2] = common[j][2] =>
                 FirstIndex(cand, common[i][1]) < FirstIndex(cand, common[j][1])
    /\ k >= Cardinality(Elements(cand)) =>
         {common[i][1] : i \in DOMAIN common} = Elements(cand)
    /\ cand = <<>> => common = <<>>

\* C4: each of the three top-K lists analyze_file returns has at most k
\* entries, in non-increasing order of count with equal counts in order of
\* first occurrence, each a distinct element of its candidate list with its
\* exact number of occurrences; all distinct elements when k is at least
\* their number; the empty list for an empty candidate list.
C4_TopK ==
    (call.op = "analyze" /\ ~call.out.raised) =>
        /\ TopKOk(call.out.candidates.Chinese, call.k, call.out.result.Chinese)
        /\ TopKOk(call.out.candidates.Numbers, call.k, call.out.result.Numbers)
        /\ TopKOk(call.out.candidates.Special, call.k, call.out.result.Special)

C4_Witness ==
    /\ call.op = "analyze"
    /\ ~call.out.raised
    /\ call.k = 1
    /\ call.out.candidates.Numbers = <<"3", "2", "2">>
    /\ call.out.result.Numbers = <<<<"2", 2>>>>

\* C5: for the text "3 apples, 2 oranges! ni-hao, ni-hao." analysed with
\* top_k = 5, ni-hao not being a stopword, the Chinese-word list holds
\* ni-hao with count 2.
C5_ChineseCount ==
    (/\ call.op = "analyze"
     /\ ~call.out.raised
     /\ call.doc.parts = <<FruitText>>
     /\ call.k = 5
     /\ <<"ni", "hao">> \notin stopwords) =>
        \E i \in DOMAIN call.out.result.Chinese :
            call.out.result.Chinese[i] = <<<<"ni", "hao">>, 2>>

NonEmptyLines(dir) ==
    UNION {{strip(dir[i].lines[j]) : j \in DOMAIN dir[i].lines} :
              i \in {n \in DOMAIN dir : dir[n].name[2] = ".txt"}} \ {<<>>}

\* C6: after a FileAnalyzer is constructed its stopword set is exactly the
\* set of non-empty trimmed lines of the .txt files under the stopword
\* directory (empty for an absent directory); the empty string is never a
\* member.
C6_StopwordSet == call.constructed => stopwords = NonEmptyLines(call.dir)

\* C7: with no file path selected, Analyze File and Count Word Frequency
\* show exactly one warning dialog and change nothing else: no analyzer is
\* constructed, no handler added, no prompt shown, the output region and
\* the selected path stay as they were.
C7_NoFileNoOp ==
    [][(file_path \in {None, EmptyString} /\ (AnalyzeAction \/ CountAction)) =>
          /\ shown' = <<NoFileWarning>>
          /\ call' = NoCall
          /\ UNCHANGED <<file_path, picked, output_area, handlers, stopwords, openHandles>>]_vars

C7_Witness ==
    /\ file_path = EmptyString
    /\ shown = <<NoFileWarning>>
    /\ output_area # <<>>

ExpectedRegion(result) ==
    <<[text |-> <<"Most Common Chinese Words:">>, count |-> <<>>]>>
    \o [i \in DOMAIN result.Chinese |->
          [text |-> result.Chinese[i][1], count |-> str(result.Chinese[i][2])]]
    \o <<[text |-> <<"\nMost Common Numbers:">>, count |-> <<>>]>>
    \o [i \in DOMAIN result.Numbers |->
          [text |-> result.Numbers[i][1], count |-> str(result.Numbers[i][2])]]
    \o <<[text |-> <<"\nMost Common Special Characters:">>, count |-> <<>>]>>
    \o [i \in DOMAIN result.Special |->
          [text |-> result.Special[i][1], count |-> str(result.Special[i][2])]]

\* C8: Analyze File is all-or-nothing on the output region: when the
\* construction, extraction, tokenization or counting raises, the region
\* keeps its contents and exactly one error dialog with the error's message
\* is shown; when they succeed the region holds only the three headed lists
\* of the new result.  No other action changes the region.
C8_AllOrNothing ==
    [][/\ AnalyzeStep =>
            IF call'.out.raised
            THEN /\ output_area' = output_area
                 /\ shown' = <<ErrorDialog(call'.out.message)>>
            ELSE /\ output_area' = ExpectedRegion(call'.out.result)
                 /\ shown' = <<>>
       /\ ~AnalyzeStep => output_area' = output_area]_vars

C8_Witness ==
    /\ call.op = "analyze"
    /\ call.out.raised
    /\ output_area # <<>>
    /\ shown = <<ErrorDialog(call.out.message)>>

\* C9: every Select File stores the picker's return value as the selected
\* path, a cancelled picker included: the path is then empty, no File
\* Selected dialog is shown, and a following Analyze File or Count Word
\* Frequency takes the no-file warning branch.
C9_SelectOverwrites ==
    [][/\ SelectFile =>
            /\ file_path' = picked'
            /\ picked' = EmptyString => shown' = <<>>
       /\ (picked = EmptyString /\ (AnalyzeAction \/ CountAction)) =>
            /\ shown' = <<NoFileWarning>>
            /\ handlers' = handlers
            /\ output_area' = output_area]_vars

C9_Witness ==
    /\ picked = EmptyString
    /\ file_path = EmptyString
    /\ Len(handlers) > 0
    /\ shown = <<NoFileWarning>>

\* C10: all analyzers share one logger and each construction adds one
\* handler that is never removed: the handler count never decreases, grows
\* by one with each construction, and the records of a call (three INFO
\* records of an analysis, one ERROR record of an unsupported format) go to
\* every handler present, the new one included.
C10_HandlersAccumulate ==
    [][/\ Len(handlers') >= Len(handlers)
       /\ (AnalyzeStep \/ CountStep) =>
            /\ Len(handlers') = Len(handlers) + 1
            /\ \A i \in DOMAIN handlers' :
                 handlers'[i] =
                   (IF i <= Len(handlers) THEN handlers[i] ELSE <<>>) \o call'.out.records
            /\ (call'.op = "analyze" /\ ~call'.out.raised) =>
                 /\ Len(call'.out.records) = 3
                 /\ \A j \in 1..3 : call'.out.records[j].level = "INFO"
            /\ (call'.constructed /\ call'.path[2] \notin SupportedSuffixes) =>
                 /\ Len(call'.out.records) = 1
                 /\ call'.out.records[1].level = "ERROR"]_vars

C10_Witness ==
    /\ Len(handlers) = 2
    /\ Len(handlers[1]) = 6
    /\ Len(handlers[2]) = 3

====
